---- MODULE Spec2Model ----
(***************************************************************************)
(* A model of gmedygab/stock: the StockAnalyzer facade                     *)
(* (src/stock_analyzer.py), the PredictiveModel engine                     *)
(* (src/predictive_model.py) and the DataFetcher provider                  *)
(* (src/data_fetcher.py).                                                  *)
(*                                                                         *)
(* Floating-point numbers are fixed-point values with unit 1/SCALE, plus   *)
(* the IEEE values NaN and +/-infinity, which pandas and numpy produce for *)
(* empty statistics and divisions by zero.  Dates are proleptic Gregorian  *)
(* ordinals (date.toordinal()), so that weekday() is (ordinal + 6) % 7.    *)
(* Strings are sequences of one-character strings.                         *)
(***************************************************************************)
EXTENDS Integers, Sequences, FiniteSets, TLC

\* ------------------------------------------------------------------ bounds

\* The largest prediction horizon a caller passes (callers pass 1..MaxDays).
MaxDays == 2

\* The number of facade calls made on one StockAnalyzer.
MaxCalls == 3

\* The largest horizon given to the engine's functions called on their own
\* (they are given 0..MaxEngineDays).
MaxEngineDays == 5

\* The fixed-point unit: a float x is the integer x * SCALE.
SCALE == 10 * 100

\* ------------------------------------------------------------------ floats

F(v) == [k |-> "num", v |-> v]

NaN == [k |-> "nan", v |-> 0]

Inf(s) == [k |-> "inf", v |-> s]

IsNum(a) == a.k = "num"

IsNaN(a) == a.k = "nan"

Sgn(x) == IF x > 0 THEN 1 ELSE IF x < 0 THEN -1 ELSE 0

Abs(x) == IF x < 0 THEN -x ELSE x

\* Integer division rounding toward zero, for a positive divisor.
TDiv(a, b) == IF a >= 0 THEN a \div b ELSE -((-a) \div b)

FNeg(a) == IF a.k = "nan" THEN NaN ELSE [k |-> a.k, v |-> -a.v]

FAdd(a, b) ==
    IF a.k = "nan" \/ b.k = "nan" THEN NaN
    ELSE IF a.k = "inf" /\ b.k = "inf" THEN (IF a.v = b.v THEN a ELSE NaN)
    ELSE IF a.k = "inf" THEN a
    ELSE IF b.k = "inf" THEN b
    ELSE F(a.v + b.v)

FSub(a, b) == FAdd(a, FNeg(b))

\* x * y / SCALE rounded toward zero, without forming x * y.
MulUnits(x, y) ==
    Sgn(x) * Sgn(y)
    * (Abs(x) * (Abs(y) \div SCALE) + (Abs(x) * (Abs(y) % SCALE)) \div SCALE)

FMul(a, b) ==
    IF a.k = "nan" \/ b.k = "nan" THEN NaN
    ELSE IF a.k = "inf" \/ b.k = "inf"
         THEN (IF Sgn(a.v) * Sgn(b.v) = 0 THEN NaN ELSE Inf(Sgn(a.v) * Sgn(b.v)))
    ELSE F(MulUnits(a.v, b.v))

\* IEEE division (numpy float64): x/0 is +/-inf, 0/0 is NaN.
FDiv(a, b) ==
    IF a.k = "nan" \/ b.k = "nan" THEN NaN
    ELSE IF b.k = "inf" THEN (IF a.k = "inf" THEN NaN ELSE F(0))
    ELSE IF a.k = "inf" THEN Inf(IF b.v < 0 THEN -a.v ELSE a.v)
    ELSE IF b.v = 0 THEN (IF a.v = 0 THEN NaN ELSE Inf(Sgn(a.v)))
    ELSE F(TDiv(a.v * SCALE * Sgn(b.v), Abs(b.v)))

\* a > b and a < b: False whenever an operand is NaN.
FGt(a, b) ==
    IF a.k = "nan" \/ b.k = "nan" THEN FALSE
    ELSE IF a.k = "inf" THEN a.v > 0 /\ ~(b.k = "inf" /\ b.v > 0)
    ELSE IF b.k = "inf" THEN b.v < 0
    ELSE a.v > b.v

FLt(a, b) == FGt(b, a)

\* Python's built-in max(a, b) and min(a, b): the first argument is kept
\* unless the second compares strictly beyond it.
PyMax(a, b) == IF FGt(b, a) THEN b ELSE a

PyMin(a, b) == IF FLt(b, a) THEN b ELSE a

\* The integer square root, by bisection on lo..hi.
RECURSIVE ISqrtIn(_, _, _)
ISqrtIn(n, lo, hi) ==
    IF lo >= hi THEN lo
    ELSE LET mid == (lo + hi + 1) \div 2
         IN IF mid * mid <= n THEN ISqrtIn(n, mid, hi) ELSE ISqrtIn(n, lo, mid - 1)

ISqrt(n) == ISqrtIn(n, 0, IF n < 40000 THEN n ELSE 40000)

\* ------------------------------------------------------------------ sequences

RECURSIVE FSum(_)
FSum(s) == IF s = <<>> THEN F(0) ELSE FAdd(Head(s), FSum(Tail(s)))

\* pandas Series.mean(): NaN for an empty series.
Mean(s) == IF s = <<>> THEN NaN ELSE FDiv(FSum(s), F(Len(s) * SCALE))

RECURSIVE SumSqDev(_, _)
SumSqDev(s, m) ==
    IF s = <<>> THEN 0
    ELSE (Head(s).v - m.v) * (Head(s).v - m.v) + SumSqDev(Tail(s), m)

\* pandas Series.std() (ddof = 1): NaN for fewer than two values.
Std(s) ==
    IF Len(s) < 2 THEN NaN
    ELSE F(ISqrt(SumSqDev(s, Mean(s)) \div (Len(s) - 1)))

\* ------------------------------------------------------------------ values

\* Python's None.
None == [none |-> TRUE]

\* str.upper() on the letters; every other character is kept.
LowerLetters ==
    << "a", "b", "c", "d", "e", "f", "g", "h", "i", "j", "k", "l", "m",
       "n", "o", "p", "q", "r", "s", "t", "u", "v", "w", "x", "y", "z" >>

UpperLetters ==
    << "A", "B", "C", "D", "E", "F", "G", "H", "I", "J", "K", "L", "M",
       "N", "O", "P", "Q", "R", "S", "T", "U", "V", "W", "X", "Y", "Z" >>

UpperChar(c) ==
    IF \E i \in 1..Len(LowerLetters) : LowerLetters[i] = c
    THEN UpperLetters[CHOOSE i \in 1..Len(LowerLetters) : LowerLetters[i] = c]
    ELSE c

StrUpper(s) == [i \in 1..Len(s) |-> UpperChar(s[i])]

\* str.endswith(suffix).
EndsWith(s, suffix) ==
    /\ Len(s) >= Len(suffix)
    /\ SubSeq(s, Len(s) - Len(suffix) + 1, Len(s)) = suffix

\* The symbols given to StockAnalyzer(symbol).
Symbols ==
    { << "a", "a", "p", "l" >>,
      << "b", "t", "c", "-", "u", "s", "d" >>,
      << "S", "P", "X", ".", "X" >> }

\* datetime.weekday() of a date ordinal: 0 is Monday, 5 Saturday, 6 Sunday.
Weekday(d) == (d + 6) % 7

\* A row of the OHLC DataFrame, indexed by its date; prices in whole units.
Row(d, o, h, l, c) ==
    [date |-> d, open |-> F(o * SCALE), high |-> F(h * SCALE),
     low |-> F(l * SCALE), close |-> F(c * SCALE)]

\* A DataFrame of the given rows.
Frame(rows) == [rows |-> rows]

\* pd.DataFrame(): no rows.
EmptyFrame == Frame(<< >>)

\* DataFrame.empty
IsEmpty(df) == Len(df.rows) = 0

\* The first of the last-dates the provider's series end on (a Monday);
\* the series end on each of the seven weekdays.
FirstLastDate == 738886

LastDates == FirstLastDate .. FirstLastDate + 6

\* The provider's upstream daily series, oldest first, ending on date e: a
\* series with rises and falls ending on every weekday, and on the first
\* date also a single observation, a pair, and a flat series.
UpstreamSeries(e) ==
    { << Row(e - 2, 10, 11, 9, 10), Row(e - 1, 10, 12, 10, 12),
         Row(e, 12, 12, 10, 11) >> }
    \cup
    (IF e # FirstLastDate THEN { }
     ELSE { << Row(e, 10, 11, 9, 10) >>,
            << Row(e - 1, 10, 11, 9, 10), Row(e, 10, 12, 10, 11) >>,
            << Row(e - 2, 10, 10, 10, 10), Row(e - 1, 10, 10, 10, 10),
               Row(e, 10, 10, 10, 10) >> })

\* df.iloc[-days:] when len(df) > days (iloc[-0:] is the whole frame).
LastRows(rows, days) ==
    IF Len(rows) > days /\ days > 0
    THEN SubSeq(rows, Len(rows) - days + 1, Len(rows))
    ELSE IF Len(rows) > days /\ days < 0
    THEN SubSeq(rows, (IF Len(rows) + days < 0 THEN 0 ELSE Len(rows) + days) + 1, Len(rows))
    ELSE rows

\* ------------------------------------------------------------------ DataFetcher

\* The series and the quotes the provider's sources hold; None when both
\* sources fail.
NetworkSeries ==
    { None } \cup
    { Frame(rows) : rows \in UNION { UpstreamSeries(e) : e \in LastDates } }

NetworkQuotes == { None, [price |-> F(12 * SCALE)] }

\* What the network answers at the time of a call: the provider's daily
\* series, its quote, and the date of the call.  A call on an object whose
\* cache is filled makes no request, so no answer is drawn for it.
Network(hist_cache, rt_cache) ==
    [series : IF hist_cache = None THEN NetworkSeries ELSE { None },
     quote : IF rt_cache = None THEN NetworkQuotes ELSE { None },
     today : { FirstLastDate + 6 }]

\* DataFetcher.fetch_real_time_data(symbol): the quote from FMP or Yahoo
\* Finance, or None when both fail.
fetch_real_time_data(sym, net) == net.quote

\* DataFetcher.fetch_historical_data(symbol, days): the last `days` rows of
\* the upstream series, or an empty DataFrame when the request fails.
fetch_historical_data(sym, days, net) ==
    IF net.series = None THEN EmptyFrame
    ELSE Frame(LastRows(net.series.rows, days))

\* ------------------------------------------------------------------ numpy.random

\* The process-wide generator behind np.random: a seeded stream of raw
\* draws; the generator's state is the position of the next draw.  The
\* stream ends in a run of the raw draw that stands for a normal draw of 0.
RngStream ==
    << 3, 0, 5, 1, 4, 2, 6 >> \o [i \in 1..(3 * MaxEngineDays) |-> 3]

RngPositions == 1..Len(RngStream)

\* The positions the generator is at when a StockAnalyzer is constructed.
SeedPositions == { 1, 4 }

RngAdvance(pos, n) == ((pos - 1 + n) % Len(RngStream)) + 1

RngRaw(pos, i) == RngStream[RngAdvance(pos, i)]

\* np.random.normal(0, 1) from a raw draw: -1.5, -1.0, ... 1.5.
StdNormal(raw) == F(TDiv((raw - 3) * SCALE, 2))

\* np.random.normal(0, scale): scale times a standard draw (NaN for NaN).
Normal(raw, scale) == FMul(scale, StdNormal(raw))

\* np.random.random(): a value in [0, 1).
Uniform(raw) == F(TDiv(raw * SCALE, 7))

\* ------------------------------------------------------------------ PredictiveModel

\* The column `col` of a frame, as a sequence.
Column(df, col) == [i \in 1..Len(df.rows) |-> df.rows[i][col]]

\* Series.pct_change().dropna(): close[t] / close[t-1] - 1 for t >= 2.
PctChange(xs) ==
    [i \in 1..(IF Len(xs) = 0 THEN 0 ELSE Len(xs) - 1) |->
        FSub(FDiv(xs[i + 1], xs[i]), F(SCALE))]

\* (high - low) / close of every row.
HighLowRatio(df) ==
    [i \in 1..Len(df.rows) |->
        FDiv(FSub(df.rows[i].high, df.rows[i].low), df.rows[i].close)]

\* ((open - close.shift(1)) / close.shift(1)).dropna(): rows t >= 2.
OpenCloseDiff(df) ==
    [i \in 1..(IF Len(df.rows) = 0 THEN 0 ELSE Len(df.rows) - 1) |->
        FDiv(FSub(df.rows[i + 1].open, df.rows[i].close), df.rows[i].close)]

\* The batch generate_predictions returns for no data.
EmptyBatch ==
    [prices |-> << >>, percentage_changes |-> << >>, open_prices |-> << >>,
     high_prices |-> << >>, low_prices |-> << >>]

\* The statistics generate_predictions takes from the history: the mean and
\* the sample deviation of the daily returns, the mean high-low spread and
\* the mean open-to-previous-close gap.
HistoryStats(historical_data) ==
    [mean_return |-> Mean(PctChange(Column(historical_data, "close"))),
     volatility |-> Std(PctChange(Column(historical_data, "close"))),
     mean_high_low_ratio |-> Mean(HighLowRatio(historical_data)),
     mean_open_close_diff |-> Mean(OpenCloseDiff(historical_data))]

\* The day's return: mean_return + random_factor * volatility.
DailyReturn(st, pos) ==
    FAdd(st.mean_return, FMul(StdNormal(RngRaw(pos, 0)), st.volatility))

\* last_price * (1 + mean_open_close_diff + np.random.normal(0, volatility/2))
OpenPrice(last_price, st, pos) ==
    FMul(last_price,
         FAdd(FAdd(F(SCALE), st.mean_open_close_diff),
              Normal(RngRaw(pos, 1), FDiv(st.volatility, F(2 * SCALE)))))

\* new_price * mean_high_low_ratio * (0.8 + 0.4 * np.random.random())
PriceRange(new_price, st, pos) ==
    FMul(FMul(new_price, st.mean_high_low_ratio),
         FAdd(F(TDiv(8 * SCALE, 10)),
              FMul(F(TDiv(4 * SCALE, 10)), Uniform(RngRaw(pos, 2)))))

\* The day's point from its close, its open and its range.
DayPoint(daily_return, new_price, open_price, price_range) ==
    [price |-> new_price,
     percentage_change |-> FMul(daily_return, F(100 * SCALE)),
     open |-> open_price,
     high |-> FAdd(PyMax(new_price, open_price), FDiv(price_range, F(2 * SCALE))),
     low |-> FSub(PyMin(new_price, open_price), FDiv(price_range, F(2 * SCALE)))]

\* new_price = last_price * (1 + daily_return)
NewPrice(last_price, daily_return) == FMul(last_price, FAdd(F(SCALE), daily_return))

\* The day's point once its close is known.
DayFromClose(last_price, daily_return, new_price, st, pos) ==
    DayPoint(daily_return, new_price, OpenPrice(last_price, st, pos),
             PriceRange(new_price, st, pos))

\* The day's point once its return is known.
DayFromReturn(last_price, daily_return, st, pos) ==
    DayFromClose(last_price, daily_return, NewPrice(last_price, daily_return),
                 st, pos)

\* One pass of the loop body: the day's point from last_price and the three
\* draws it takes (normal, normal, random), in the order the code takes them.
PredictDay(last_price, st, pos) ==
    DayFromReturn(last_price, DailyReturn(st, pos), st, pos)

\* The batch with one more point.
AppendPoint(batch, p) ==
    [prices |-> Append(batch.prices, p.price),
     percentage_changes |-> Append(batch.percentage_changes, p.percentage_change),
     open_prices |-> Append(batch.open_prices, p.open),
     high_prices |-> Append(batch.high_prices, p.high),
     low_prices |-> Append(batch.low_prices, p.low)]

\* A slip in the loop: one pass too few.
LoopCountShort(days) == IF days > 1 THEN days - 1 ELSE 0

\* The number of passes of `for _ in range(days)`.
LoopCount(days) == IF days > 0 THEN days ELSE 0

\* The loop of generate_predictions: the batch accumulated so far, extended
\* by the remaining passes.
RECURSIVE PredictLoop(_, _, _, _, _)
PredictLoop(batch, left, last_price, st, pos) ==
    IF left = 0 THEN [batch |-> batch, rng |-> pos]
    ELSE LET p == PredictDay(last_price, st, pos)
         IN PredictLoop(AppendPoint(batch, p), left - 1, p.price, st,
                        RngAdvance(pos, 3))

\* A slip in the guard: only None is tested, not an empty history.
generate_predictions_unguarded(historical_data, current_price, days, pos) ==
    IF historical_data = None
    THEN [batch |-> EmptyBatch, rng |-> pos]
    ELSE PredictLoop(EmptyBatch, LoopCount(days), current_price,
                     HistoryStats(historical_data), pos)

\* PredictiveModel.generate_predictions(historical_data, current_price, days)
\* with the generator at position pos: the batch returned and the
\* generator's position afterwards.
generate_predictions(historical_data, current_price, days, pos) ==
    IF historical_data = None \/ IsEmpty(historical_data)
    THEN [batch |-> EmptyBatch, rng |-> pos]
    ELSE PredictLoop(EmptyBatch, LoopCount(days), current_price,
                     HistoryStats(historical_data), pos)

\* ------------------------------------------------------------------ analyze_trend

\* What a call does: it returns a value or raises an exception.
Returned(v) == [ret |-> v]

Raised(e) == [raised |-> e]

IsRaised(o) == "raised" \in DOMAIN o

\* The result analyze_trend returns when there is nothing to analyze.
NeutralTrend ==
    [trend_direction |-> "unknown", strength |-> F(0), support_level |-> F(0),
     resistance_level |-> F(0),
     momentum_indicators |-> [rsi |-> F(50 * SCALE), macd |-> F(0)]]

\* A slip in the window: the whole series is taken.
WholeSeries(xs, n) == xs

\* Series.tail(n).values
TailValues(xs, n) == IF Len(xs) > n THEN SubSeq(xs, Len(xs) - n + 1, Len(xs)) ELSE xs

\* The number of recent closes analyze_trend looks at.
RecentCloses == 20

AllFinite(ys) == \A i \in 1..Len(ys) : IsNum(ys[i])

RECURSIVE SumV(_)
SumV(ys) == IF ys = << >> THEN 0 ELSE Head(ys).v + SumV(Tail(ys))

RECURSIVE SumXV(_, _)
SumXV(ys, x) == IF ys = << >> THEN 0 ELSE x * Head(ys).v + SumXV(Tail(ys), x + 1)

\* The least-squares slope of ys against 0..n-1 as a fraction num/den of
\* fixed-point units (n >= 2, every y finite).
SlopeNum(ys) ==
    LET n == Len(ys)
    IN n * SumXV(ys, 0) - ((n * (n - 1)) \div 2) * SumV(ys)

SlopeDen(ys) ==
    LET n == Len(ys)
        sx == (n * (n - 1)) \div 2
        sxx == ((n - 1) * n * (2 * n - 1)) \div 6
    IN n * sxx - sx * sx

\* np.polyfit(np.arange(len(ys)), ys, 1)[0].  With a single point the
\* scaled Vandermonde matrix holds 0/0, and with a non-finite y the system
\* holds NaN: LAPACK then either fails to converge (LinAlgError) or yields
\* NaN, depending on the build.
Polyfit(ys) ==
    IF Len(ys) < 2 \/ ~AllFinite(ys)
    THEN { Raised("LinAlgError"), Returned(NaN) }
    ELSE { Returned(F(TDiv(SlopeNum(ys), SlopeDen(ys)))) }

\* A slip in the threshold: a slope of exactly 0.001 counts as upward.
SlopeAtLeast(ys) ==
    Len(ys) >= 2 /\ AllFinite(ys) /\ SlopeNum(ys) >= SlopeDen(ys) * (SCALE \div 1000)

\* pred_slope > 0.001 and pred_slope < -0.001, on the exact fraction
\* (0.001 is SCALE \div 1000 fixed-point units).
SlopeAbove(ys) ==
    Len(ys) >= 2 /\ AllFinite(ys) /\ SlopeNum(ys) > SlopeDen(ys) * (SCALE \div 1000)

SlopeBelow(ys) ==
    Len(ys) >= 2 /\ AllFinite(ys) /\ SlopeNum(ys) < -(SlopeDen(ys) * (SCALE \div 1000))

\* A slip in the direction: a slope within the thresholds is 'unknown'.
TrendDirectionUnknown(predicted_closes) ==
    IF SlopeAbove(predicted_closes) THEN "upward"
    ELSE IF SlopeBelow(predicted_closes) THEN "downward"
    ELSE "unknown"

TrendDirection(predicted_closes) ==
    IF SlopeAbove(predicted_closes) THEN "upward"
    ELSE IF SlopeBelow(predicted_closes) THEN "downward"
    ELSE "sideways"

\* np.std(series): Series.std(ddof=0), NaN for an empty series.
StdPop(s) ==
    IF Len(s) < 1 THEN NaN
    ELSE F(ISqrt(SumSqDev(s, Mean(s)) \div Len(s)))

FAbs(a) == IF a.k = "num" THEN F(Abs(a.v)) ELSE IF a.k = "inf" THEN Inf(1) ELSE NaN

\* The divisor of norm_pred_slope: hist_volatility * 10.
NormDivisor(hist_volatility) == FMul(hist_volatility, F(10 * SCALE))

\* A slip in the clamp: the normalised slope is not limited to 0..100.
StrengthUnclamped(pred_slope, hist_volatility) ==
    FMul(FDiv(FAbs(pred_slope), NormDivisor(hist_volatility)), F(100 * SCALE))

\* min(100, max(0, norm_pred_slope * 100)), with
\* norm_pred_slope = abs(pred_slope) / (hist_volatility * 10): a numpy
\* float64 division, which yields inf or NaN (and a RuntimeWarning) for a
\* zero divisor.
Strength(pred_slope, hist_volatility) ==
    LET norm_pred_slope ==
            FDiv(FAbs(pred_slope), NormDivisor(hist_volatility))
    IN PyMin(F(100 * SCALE),
             PyMax(F(0), FMul(norm_pred_slope, F(100 * SCALE))))

\* np.min and np.max: NaN when any element is NaN.
RECURSIVE NpMin(_)
NpMin(ys) ==
    IF Len(ys) = 1 THEN Head(ys)
    ELSE LET m == NpMin(Tail(ys))
         IN IF IsNaN(Head(ys)) \/ IsNaN(m) THEN NaN
            ELSE IF FLt(Head(ys), m) THEN Head(ys) ELSE m

RECURSIVE NpMax(_)
NpMax(ys) ==
    IF Len(ys) = 1 THEN Head(ys)
    ELSE LET m == NpMax(Tail(ys))
         IN IF IsNaN(Head(ys)) \/ IsNaN(m) THEN NaN
            ELSE IF FGt(Head(ys), m) THEN Head(ys) ELSE m

\* np.diff
Diff(ys) ==
    [i \in 1..(IF Len(ys) = 0 THEN 0 ELSE Len(ys) - 1) |-> FSub(ys[i + 1], ys[i])]

\* np.sum(diff[diff > 0]) and np.sum(diff[diff < 0])
RECURSIVE SumPositive(_)
SumPositive(ds) ==
    IF ds = << >> THEN F(0)
    ELSE IF FGt(Head(ds), F(0)) THEN FAdd(Head(ds), SumPositive(Tail(ds)))
    ELSE SumPositive(Tail(ds))

RECURSIVE SumNegative(_)
SumNegative(ds) ==
    IF ds = << >> THEN F(0)
    ELSE IF FLt(Head(ds), F(0)) THEN FAdd(Head(ds), SumNegative(Tail(ds)))
    ELSE SumNegative(Tail(ds))

\* A slip in the differences: the history and the batch are differenced
\* each on its own, without the step from the one to the other.
RsiWithoutBoundary(recent_closes, predicted_closes) ==
    LET diff == Diff(recent_closes) \o Diff(predicted_closes)
        gains == SumPositive(diff)
        losses == FAbs(SumNegative(diff))
    IN IF losses = F(0) THEN F(100 * SCALE)
       ELSE FSub(F(100 * SCALE),
                 FDiv(F(100 * SCALE), FAdd(F(SCALE), FDiv(gains, losses))))

\* A slip in the formula: the ratio of gains to losses is taken for the
\* index itself.
RsiAsRatio(recent_closes, predicted_closes) ==
    LET diff == Diff(recent_closes \o predicted_closes)
        gains == SumPositive(diff)
        losses == FAbs(SumNegative(diff))
    IN IF losses = F(0) THEN F(100 * SCALE)
       ELSE FMul(F(100 * SCALE), FDiv(gains, losses))

\* rsi: 100 when there are no losses, else 100 - 100 / (1 + gains / losses).
Rsi(recent_closes, predicted_closes) ==
    LET diff == Diff(recent_closes \o predicted_closes)
        gains == SumPositive(diff)
        losses == FAbs(SumNegative(diff))
    IN IF losses = F(0) THEN F(100 * SCALE)
       ELSE FSub(F(100 * SCALE),
                 FDiv(F(100 * SCALE), FAdd(F(SCALE), FDiv(gains, losses))))

\* The weight Series.ewm(span=span) (adjust=True) gives the observation of
\* the given age: (1 - alpha)^age with alpha = 2 / (span + 1), in
\* fixed-point units.
RECURSIVE EwmWeight(_, _)
EwmWeight(span, age) ==
    IF age = 0 THEN SCALE
    ELSE TDiv(EwmWeight(span, age - 1) * (span - 1), span + 1)

\* The weighted sum of the first n observations, the n-th having age `age`.
RECURSIVE EwmNum(_, _, _, _)
EwmNum(xs, span, n, age) ==
    IF n = 0 THEN 0
    ELSE MulUnits(xs[n].v, EwmWeight(span, age)) + EwmNum(xs, span, n - 1, age + 1)

\* The sum of the weights of n observations, the last having age `age`.
RECURSIVE EwmDen(_, _, _)
EwmDen(span, n, age) ==
    IF n = 0 THEN 0
    ELSE EwmWeight(span, age) + EwmDen(span, n - 1, age + 1)

\* Series.ewm(span=span).mean().iloc[-1] (adjust=True): the average of the
\* series weighted by (1 - alpha)^age.
EwmLast(xs, span) ==
    IF ~AllFinite(xs) THEN NaN
    ELSE F(TDiv(EwmNum(xs, span, Len(xs), 0) * SCALE, EwmDen(span, Len(xs), 0)))

MacdFast == 12

MacdSlow == 26

\* The summary analyze_trend builds once both fits have returned.
TrendSummary(historical_data, recent_closes, predicted_closes, pred_slope) ==
    LET closes == Column(historical_data, "close")
    IN [trend_direction |-> TrendDirection(predicted_closes),
        strength |-> Strength(pred_slope, StdPop(PctChange(closes))),
        support_level |->
            FMul(PyMin(NpMin(recent_closes), NpMin(predicted_closes)),
                 F(TDiv(98 * SCALE, 100))),
        resistance_level |->
            FMul(PyMax(NpMax(recent_closes), NpMax(predicted_closes)),
                 F(TDiv(102 * SCALE, 100))),
        momentum_indicators |->
            [rsi |-> Rsi(recent_closes, predicted_closes),
             macd |-> FSub(EwmLast(closes, MacdFast), EwmLast(closes, MacdSlow))]]

\* PredictiveModel.analyze_trend(historical_data, prediction_data): the
\* outcomes the call can have.
analyze_trend(historical_data, prediction_data) ==
    IF historical_data = None \/ IsEmpty(historical_data)
    THEN { Returned(NeutralTrend) }
    ELSE IF prediction_data = None
    THEN { Raised("TypeError") }
    ELSE IF prediction_data.prices = << >>
    THEN { Returned(NeutralTrend) }
    ELSE LET recent_closes ==
                 TailValues(Column(historical_data, "close"), RecentCloses)
             predicted_closes == prediction_data.prices
             hist_fit == Polyfit(recent_closes)
             pred_fit == Polyfit(predicted_closes)
         IN { Raised("LinAlgError") :
                  r \in { x \in hist_fit \cup pred_fit : x = Raised("LinAlgError") } }
            \cup
            { Returned(TrendSummary(historical_data, recent_closes,
                                    predicted_closes, p.ret)) :
                  p \in { x \in pred_fit :
                              /\ x # Raised("LinAlgError")
                              /\ \E h \in hist_fit : h # Raised("LinAlgError") } }

\* ------------------------------------------------------------------ StockAnalyzer

VARIABLES
    symbol,                 \* self.symbol
    real_time_data_cache,   \* self._real_time_data_cache
    historical_data_cache,  \* self._historical_data_cache
    predictive_data_cache,  \* self._predictive_data_cache
    rng,                    \* the position of np.random's process-wide generator
    fetch_rt_calls,         \* the number of fetch_real_time_data requests made
    fetch_hist_calls,       \* the days argument of each fetch_historical_data request
    gen_calls,              \* the days argument of each generate_predictions call
    calls,                  \* the number of calls made so far
    last,                   \* the last call: its name, argument and outcome, and the
                            \* requests it made of the engine and of the provider
    input,                  \* the inputs of the engine's pure functions under test
    other,                  \* a second StockAnalyzer of the same process
    alone,                  \* the object as it is in the run without the second
                            \* one's calls, and the outcome of its last call there
    portfolio               \* a PortfolioAnalyzer

vars ==
    << symbol, real_time_data_cache, historical_data_cache,
       predictive_data_cache, rng, fetch_rt_calls, fetch_hist_calls,
       gen_calls, calls, last, input, other, alone, portfolio >>

\* The object and the generator it draws from, as one value.
Self ==
    [symbol |-> symbol,
     real_time_data_cache |-> real_time_data_cache,
     historical_data_cache |-> historical_data_cache,
     predictive_data_cache |-> predictive_data_cache,
     rng |-> rng,
     fetch_rt_calls |-> fetch_rt_calls,
     fetch_hist_calls |-> fetch_hist_calls,
     gen_calls |-> gen_calls]

\* The default of get_historical_data(days=30).
HistoryDays == 30

\* StockAnalyzer.get_real_time_data()
get_real_time_data(self, net) ==
    LET s1 == IF self.real_time_data_cache = None
              THEN [self EXCEPT
                       !.real_time_data_cache = fetch_real_time_data(self.symbol, net),
                       !.fetch_rt_calls = @ + 1]
              ELSE self
    IN [self |-> s1, out |-> Returned(s1.real_time_data_cache)]

\* A slip in the cache test: an empty cached series is fetched again.
get_historical_data_refetching_empty(self, days, net) ==
    LET s1 == IF self.historical_data_cache = None
                 \/ IsEmpty(self.historical_data_cache)
              THEN [self EXCEPT
                       !.historical_data_cache =
                           fetch_historical_data(self.symbol, days, net),
                       !.fetch_hist_calls = Append(@, days)]
              ELSE self
    IN [self |-> s1, out |-> Returned(s1.historical_data_cache)]

\* StockAnalyzer.get_historical_data(days)
get_historical_data(self, days, net) ==
    LET s1 == IF self.historical_data_cache = None
              THEN [self EXCEPT
                       !.historical_data_cache =
                           fetch_historical_data(self.symbol, days, net),
                       !.fetch_hist_calls = Append(@, days)]
              ELSE self
    IN [self |-> s1, out |-> Returned(s1.historical_data_cache)]

\* self._predictive_data_cache = generate_predictions(...): g is the batch
\* generated and the generator's position afterwards.
StoreBatch(self, days, g) ==
    [self |-> [self EXCEPT !.predictive_data_cache = g.batch,
                           !.rng = g.rng,
                           !.gen_calls = Append(@, days)],
     out |-> Returned(g.batch)]

\* A slip in the cache test: a cached batch is kept whatever its length.
RegenerateWhenMissing(cache, days) == cache = None

\* A slip in the cache test: every request regenerates.
RegenerateAlways(cache, days) == TRUE

\* A slip in the cache test: the comparison of the lengths is inverted.
RegenerateOnSameDays(cache, days) == cache = None \/ Len(cache.prices) = days

\* The test `regenerate` of get_predictive_data.
Regenerate(cache, days) == cache = None \/ Len(cache.prices) # days

\* get_predictive_data once the quote r has been obtained: the batch is
\* generated from its price and stored.
PredictFromQuote(historical_data, r, days) ==
    IF r.out.ret = None
    THEN [self |-> r.self, out |-> Raised("TypeError")]
    ELSE StoreBatch(r.self, days,
                    generate_predictions(historical_data, r.out.ret.price,
                                         days, r.self.rng))

\* get_predictive_data once the history h has been obtained.
PredictFromHistory(h, days, net) ==
    IF h.out.ret # None /\ ~IsEmpty(h.out.ret)
    THEN PredictFromQuote(h.out.ret, get_real_time_data(h.self, net), days)
    ELSE [self |-> h.self, out |-> Returned(h.self.predictive_data_cache)]

\* StockAnalyzer.get_predictive_data(days)
get_predictive_data(self, days, net) ==
    IF ~Regenerate(self.predictive_data_cache, days)
    THEN [self |-> self, out |-> Returned(self.predictive_data_cache)]
    ELSE PredictFromHistory(get_historical_data(self, HistoryDays, net), days, net)

\* get_trend_analysis once the batch p has been obtained.
TrendFromPrediction(historical_data, p) ==
    IF IsRaised(p.out)
    THEN { p }
    ELSE { [self |-> p.self, out |-> o] :
               o \in analyze_trend(historical_data, p.out.ret) }

\* A slip in get_trend_analysis: the batch stored before is analysed as it
\* is, whatever horizon it was generated for.
TrendFromStoredBatch(h, days, net) ==
    TrendFromPrediction(h.out.ret,
                        [self |-> h.self,
                         out |-> Returned(h.self.predictive_data_cache)])

\* get_trend_analysis once the history h has been obtained.
TrendFromHistory(h, days, net) ==
    TrendFromPrediction(h.out.ret, get_predictive_data(h.self, days, net))

\* StockAnalyzer.get_trend_analysis(days): the outcomes the call can have.
get_trend_analysis(self, days, net) ==
    TrendFromHistory(get_historical_data(self, HistoryDays, net), days, net)

\* A slip in the suffix test: only '-USD' is looked for.
TradesEveryDayUsdOnly(sym) == EndsWith(sym, << "-", "U", "S", "D" >>)

\* The test that selects calendar-day stepping: the symbol ends with '.X'
\* or '-USD'.
TradesEveryDay(sym) ==
    EndsWith(sym, << ".", "X" >>) \/ EndsWith(sym, << "-", "U", "S", "D" >>)

\* A slip in the weekday test: Saturday passes it.
IsWeekdayOrSaturday(d) == Weekday(d) <= 5

\* current_date.weekday() < 5: Monday to Friday.
IsWeekday(d) == Weekday(d) < 5

\* The while loop of combine_historical_and_predictive: the dates given to n
\* predictive points, stepping a day at a time from current_date.
RECURSIVE DatesLoop(_, _, _, _, _)
DatesLoop(sym, current_date, days_added, n, dates) ==
    IF ~(days_added < n) THEN dates
    ELSE LET next_date == current_date + 1
         IN IF TradesEveryDay(sym)
            THEN DatesLoop(sym, next_date, days_added + 1, n, Append(dates, next_date))
            ELSE IF IsWeekday(next_date)
            THEN DatesLoop(sym, next_date, days_added + 1, n, Append(dates, next_date))
            ELSE DatesLoop(sym, next_date, days_added, n, dates)

PredictiveDates(sym, start_date, n) == DatesLoop(sym, start_date, 0, n, << >>)

\* A row of the combined frame: the OHLC row with its 'type' column.
Tagged(row, type) ==
    [date |-> row.date, open |-> row.open, high |-> row.high,
     low |-> row.low, close |-> row.close, type |-> type]

\* historical_df = self.get_historical_data().copy() with its 'type' column.
HistoricalFrame(df) ==
    Frame([i \in 1..Len(df.rows) |-> Tagged(df.rows[i], "historical")])

\* The date the predictive dates are counted from: today for an empty
\* history, else the last date of the history.
StartDate(historical_df, today) ==
    IF Len(historical_df.rows) = 0 THEN today
    ELSE historical_df.rows[Len(historical_df.rows)].date

\* A slip in predictive_df: every column is filled from the closes.
PredictiveFrameOfCloses(predictive_data, dates) ==
    Frame([i \in 1..Len(dates) |->
              [date |-> dates[i],
               open |-> predictive_data.prices[i],
               high |-> predictive_data.prices[i],
               low |-> predictive_data.prices[i],
               close |-> predictive_data.prices[i],
               type |-> "predictive"]])

\* predictive_df: the batch's points indexed by the dates.
PredictiveFrame(predictive_data, dates) ==
    Frame([i \in 1..Len(dates) |->
              [date |-> dates[i],
               open |-> predictive_data.open_prices[i],
               high |-> predictive_data.high_prices[i],
               low |-> predictive_data.low_prices[i],
               close |-> predictive_data.prices[i],
               type |-> "predictive"]])

\* pd.concat([historical_df, predictive_df])
Concat(a, b) == Frame(a.rows \o b.rows)

\* combine_historical_and_predictive once the batch p has been obtained:
\* len(predictive_data['prices']) raises for None.
CombineFromPrediction(historical_df, p, sym, today) ==
    IF IsRaised(p.out) THEN p
    ELSE IF p.out.ret = None
    THEN [self |-> p.self, out |-> Raised("TypeError")]
    ELSE [self |-> p.self,
          out |-> Returned(
              Concat(historical_df,
                     PredictiveFrame(
                         p.out.ret,
                         PredictiveDates(sym, StartDate(historical_df, today),
                                         Len(p.out.ret.prices)))))]

\* A slip in combine_historical_and_predictive: no .copy(), the 'type'
\* column is added to the cached series itself.
CombineWithoutCopy(h, days, net) ==
    CombineFromPrediction(
        HistoricalFrame(h.out.ret),
        get_predictive_data(
            [h.self EXCEPT !.historical_data_cache = HistoricalFrame(h.out.ret)],
            days, net),
        h.self.symbol, net.today)

\* combine_historical_and_predictive once the history h has been obtained.
CombineFromHistory(h, days, net) ==
    CombineFromPrediction(HistoricalFrame(h.out.ret),
                          get_predictive_data(h.self, days, net),
                          h.self.symbol, net.today)

\* StockAnalyzer.combine_historical_and_predictive(days)
combine_historical_and_predictive(self, days, net) ==
    CombineFromHistory(get_historical_data(self, HistoryDays, net), days, net)

\* ------------------------------------------------------------------ the facade's behaviours

\* The horizons callers pass.
DaysArgs == 1..MaxDays

\* Before the first call: no operation, and nothing requested of the
\* provider or of the engine.
NoCall ==
    [op |-> "init", days |-> 0, out |-> Returned(None), gens |-> 0,
     hist_fetches |-> 0, rt_fetches |-> 0]

\* StockAnalyzer(symbol), in a process whose generator was seeded somewhere.
Init ==
    /\ symbol \in { StrUpper(s) : s \in Symbols }
    /\ real_time_data_cache = None
    /\ historical_data_cache = None
    /\ predictive_data_cache = None
    /\ rng \in SeedPositions
    /\ fetch_rt_calls = 0
    /\ fetch_hist_calls = << >>
    /\ gen_calls = << >>
    /\ calls = 0
    /\ last = NoCall
    /\ input = None
    /\ other = None
    /\ alone = None
    /\ portfolio = None

\* The object after a call, and what the call did.
CommitObject(r, op, days) ==
    /\ symbol' = r.self.symbol
    /\ real_time_data_cache' = r.self.real_time_data_cache
    /\ historical_data_cache' = r.self.historical_data_cache
    /\ predictive_data_cache' = r.self.predictive_data_cache
    /\ rng' = r.self.rng
    /\ fetch_rt_calls' = r.self.fetch_rt_calls
    /\ fetch_hist_calls' = r.self.fetch_hist_calls
    /\ gen_calls' = r.self.gen_calls
    /\ calls' = calls + 1
    /\ last' = [op |-> op, days |-> days, out |-> r.out,
                gens |-> Len(r.self.gen_calls) - Len(gen_calls),
                hist_fetches |-> Len(r.self.fetch_hist_calls) - Len(fetch_hist_calls),
                rt_fetches |-> r.self.fetch_rt_calls - fetch_rt_calls]

\* A call on the one StockAnalyzer there is.
Commit(r, op, days) ==
    /\ CommitObject(r, op, days)
    /\ UNCHANGED << input, other, alone, portfolio >>

GetRealTimeData ==
    /\ calls < MaxCalls
    /\ \E net \in Network(historical_data_cache, real_time_data_cache) :
          Commit(get_real_time_data(Self, net), "get_real_time_data", 0)

GetHistoricalData ==
    /\ calls < MaxCalls
    /\ \E net \in Network(historical_data_cache, real_time_data_cache), days \in { MaxDays, HistoryDays } :
          Commit(get_historical_data(Self, days, net), "get_historical_data", days)

GetPredictiveData ==
    /\ calls < MaxCalls
    /\ \E net \in Network(historical_data_cache, real_time_data_cache), days \in DaysArgs :
          Commit(get_predictive_data(Self, days, net), "get_predictive_data", days)

GetTrendAnalysis ==
    /\ calls < MaxCalls
    /\ \E net \in Network(historical_data_cache, real_time_data_cache), days \in DaysArgs :
          \E r \in get_trend_analysis(Self, days, net) :
              Commit(r, "get_trend_analysis", days)

CombineHistoricalAndPredictive ==
    /\ calls < MaxCalls
    /\ \E net \in Network(historical_data_cache, real_time_data_cache), days \in DaysArgs :
          Commit(combine_historical_and_predictive(Self, days, net),
                 "combine_historical_and_predictive", days)

Next ==
    \/ GetRealTimeData
    \/ GetHistoricalData
    \/ GetPredictiveData
    \/ GetTrendAnalysis
    \/ CombineHistoricalAndPredictive

Spec == Init /\ [][Next]_vars

\* ------------------------------------------------------------------ the engine's functions on their own

\* Histories given to the engine besides the provider's: a series whose
\* returns swing by more than 100%, a flat series of closes 50, 20 days
\* of closes rising from 100 to 119, and 21 days whose first close, 200,
\* is above the 20 that follow (101 to 120).
EngineSeries ==
    { << Row(FirstLastDate - 2, 10, 11, 9, 10),
         Row(FirstLastDate - 1, 10, 20, 10, 20),
         Row(FirstLastDate, 20, 20, 5, 5) >>,
      << Row(FirstLastDate - 2, 50, 50, 50, 50),
         Row(FirstLastDate - 1, 50, 50, 50, 50),
         Row(FirstLastDate, 50, 50, 50, 50) >>,
      [i \in 1..20 |->
          Row(FirstLastDate - 20 + i, 98 + i, 100 + i, 98 + i, 99 + i)],
      [i \in 1..21 |->
          IF i = 1 THEN Row(FirstLastDate - 20, 200, 200, 200, 200)
          ELSE Row(FirstLastDate - 21 + i, 98 + i, 100 + i, 98 + i, 99 + i)] }

\* The histories given to generate_predictions and analyze_trend.
EngineHistories ==
    { None, EmptyFrame } \cup (NetworkSeries \ { None })
    \cup { Frame(rows) : rows \in EngineSeries }

\* The current prices given to generate_predictions.
EnginePrices == { F(0), F(12 * SCALE), F(50 * SCALE), F(119 * SCALE) }

\* A prediction dict whose closes are the given whole prices.
BatchOfCloses(ps) ==
    LET xs == [i \in 1..Len(ps) |-> F(ps[i] * SCALE)]
    IN [prices |-> xs, percentage_changes |-> [i \in 1..Len(ps) |-> F(0)],
        open_prices |-> xs, high_prices |-> xs, low_prices |-> xs]

\* A prediction dict of two closes, 10 and 10.001: a least-squares slope
\* of exactly 0.001.
ThresholdBatch ==
    [BatchOfCloses(<< 10, 10 >>) EXCEPT
        !.prices = << F(10 * SCALE), F(10 * SCALE + SCALE \div 1000) >>]

\* Batches given to analyze_trend besides the generated one: rising,
\* falling, flat, rising then falling, and rising at the threshold slope.
TrendBatches ==
    { BatchOfCloses(<< 12, 13 >>), BatchOfCloses(<< 11, 9 >>),
      BatchOfCloses(<< 10, 10 >>), BatchOfCloses(<< 11, 13, 12 >>),
      ThresholdBatch }

\* A PredictiveModel, a history, a current price and a horizon.
InitEngine ==
    /\ symbol = StrUpper(<< "a", "a", "p", "l" >>)
    /\ real_time_data_cache = None
    /\ historical_data_cache = None
    /\ predictive_data_cache = None
    /\ rng \in RngPositions
    /\ fetch_rt_calls = 0
    /\ fetch_hist_calls = << >>
    /\ gen_calls = << >>
    /\ calls = 0
    /\ last = NoCall
    /\ \E h \in EngineHistories, price \in EnginePrices,
          days \in 0..MaxEngineDays :
          input = [historical_data |-> h, current_price |-> price,
                   days |-> days, seed |-> rng, trend_history |-> None,
                   prediction_data |-> None]
    /\ other = None
    /\ alone = None
    /\ portfolio = None

\* predictive_model.generate_predictions(historical_data, current_price, days)
GeneratePredictions ==
    /\ last.op = "init"
    /\ LET g == generate_predictions(input.historical_data,
                                     input.current_price, input.days, rng)
       IN /\ rng' = g.rng
          /\ last' = [NoCall EXCEPT !.op = "generate_predictions",
                                    !.days = input.days,
                                    !.out = Returned(g.batch), !.gens = 1]
    /\ UNCHANGED << symbol, real_time_data_cache, historical_data_cache,
                    predictive_data_cache, fetch_rt_calls, fetch_hist_calls,
                    gen_calls, calls, input, other, alone, portfolio >>

\* predictive_model.analyze_trend(historical_data, prediction_data), on the
\* batch just generated, on a batch of given closes or on None, with the
\* same history or without one.
AnalyzeTrend ==
    /\ last.op = "generate_predictions"
    /\ \E h \in { input.historical_data, None, EmptyFrame },
          p \in { last.out.ret, None } \cup TrendBatches :
          \E o \in analyze_trend(h, p) :
              /\ last' = [NoCall EXCEPT !.op = "analyze_trend",
                                        !.days = input.days, !.out = o]
              /\ input' = [input EXCEPT !.trend_history = h,
                                        !.prediction_data = p]
    /\ UNCHANGED << symbol, real_time_data_cache, historical_data_cache,
                    predictive_data_cache, rng, fetch_rt_calls,
                    fetch_hist_calls, gen_calls, calls, other, alone,
                    portfolio >>

NextEngine == GeneratePredictions \/ AnalyzeTrend

SpecEngine == InitEngine /\ [][NextEngine]_vars

\* ------------------------------------------------------------------ two StockAnalyzers in one process

\* StockAnalyzer(symbol), in a process whose generator is at position pos.
NewStockAnalyzer(sym, pos) ==
    [symbol |-> StrUpper(sym),
     real_time_data_cache |-> None,
     historical_data_cache |-> None,
     predictive_data_cache |-> None,
     rng |-> pos,
     fetch_rt_calls |-> 0,
     fetch_hist_calls |-> << >>,
     gen_calls |-> << >>]

\* The symbol of the second object.
OtherSymbol == << "m", "s", "f", "t" >>

\* What the network answers the second object: a series with rises and
\* falls, and a quote.
OtherNetwork ==
    [series : { Frame(rows) : rows \in UpstreamSeries(FirstLastDate + 1) },
     quote : { [price |-> F(12 * SCALE)] },
     today : { FirstLastDate + 6 }]

\* Two objects constructed in one process; `alone` starts as the first one.
InitPair ==
    /\ symbol \in { StrUpper(s) : s \in Symbols }
    /\ real_time_data_cache = None
    /\ historical_data_cache = None
    /\ predictive_data_cache = None
    /\ rng \in SeedPositions
    /\ fetch_rt_calls = 0
    /\ fetch_hist_calls = << >>
    /\ gen_calls = << >>
    /\ calls = 0
    /\ last = NoCall
    /\ input = None
    /\ other = NewStockAnalyzer(OtherSymbol, rng)
    /\ alone = [self |-> NewStockAnalyzer(symbol, rng), out |-> Returned(None)]
    /\ portfolio = None

\* get_predictive_data(days) on the first object; in the run without the
\* second object's calls the same call meets the same upstream data.
PairGetPredictiveData ==
    /\ calls < MaxCalls
    /\ \E net \in Network(historical_data_cache, real_time_data_cache), days \in DaysArgs :
          /\ CommitObject(get_predictive_data(Self, days, net),
                          "get_predictive_data", days)
          /\ alone' = get_predictive_data(alone.self, days, net)
    /\ UNCHANGED << input, other, portfolio >>

\* combine_historical_and_predictive(days) on the first object.
PairCombineHistoricalAndPredictive ==
    /\ calls < MaxCalls
    /\ \E net \in Network(historical_data_cache, real_time_data_cache), days \in DaysArgs :
          /\ CommitObject(combine_historical_and_predictive(Self, days, net),
                          "combine_historical_and_predictive", days)
          /\ alone' = combine_historical_and_predictive(alone.self, days, net)
    /\ UNCHANGED << input, other, portfolio >>

\* get_predictive_data(days) on the second object: it draws from the
\* generator of the process.
OtherGetPredictiveData ==
    /\ calls < MaxCalls
    /\ \E net \in OtherNetwork, days \in DaysArgs :
          LET r == get_predictive_data([other EXCEPT !.rng = rng], days, net)
          IN /\ other' = r.self
             /\ rng' = r.self.rng
    /\ calls' = calls + 1
    /\ UNCHANGED << symbol, real_time_data_cache, historical_data_cache,
                    predictive_data_cache, fetch_rt_calls, fetch_hist_calls,
                    gen_calls, last, input, alone, portfolio >>

NextPair ==
    \/ PairGetPredictiveData
    \/ PairCombineHistoricalAndPredictive
    \/ OtherGetPredictiveData

SpecPair == InitPair /\ [][NextPair]_vars

\* ------------------------------------------------------------------ PortfolioAnalyzer

\* The symbols of the holdings, as parse_portfolio_csv leaves them.
PortfolioSymbols ==
    { << "A", "A", "P", "L" >>, << "M", "S", "F", "T" >>,
      << "B", "T", "C", "-", "U", "S", "D" >> }

\* The quantities of the holdings.
Quantities == { F(SCALE), F(2 * SCALE) }

\* The dicts given as portfolio_data: symbol -> quantity, the empty dict
\* included.
Portfolios == UNION { [S -> Quantities] : S \in SUBSET PortfolioSymbols }

\* PortfolioAnalyzer(portfolio_data)
NewPortfolioAnalyzer(portfolio_data) ==
    [portfolio_data |-> portfolio_data,
     stock_analyzers |-> [s \in { } |-> None],
     portfolio_summary |-> None]

\* PortfolioAnalyzer.load_portfolio(portfolio_data)
load_portfolio(self, portfolio_data) ==
    [self EXCEPT !.portfolio_data = portfolio_data,
                 !.stock_analyzers = [s \in { } |-> None]]

\* The names bound in analyze_portfolio when line 226 is reached: its
\* parameters and the variables it assigns.
PortfolioLocals ==
    { "self", "prediction_days", "symbol", "stock_analysis", "total_value",
      "total_prediction", "portfolio_trends", "quantity", "analyzer",
      "real_time_data", "current_price", "position_type", "current_value",
      "trend_data", "predictive_data", "final_predicted_price",
      "predicted_value", "predicted_change", "e" }

\* The names bound in the module portfolio_analyzer.
PortfolioGlobals ==
    { "pd", "np", "datetime", "timedelta", "csv", "io", "requests",
      "BeautifulSoup", "StockAnalyzer", "PortfolioAnalyzer" }

\* Reading a name that analyze_portfolio does not assign: a global of the
\* module, or NameError.
LoadGlobal(name) ==
    IF name \in PortfolioGlobals THEN Returned(name) ELSE Raised("NameError")

\* The try block of analyze_portfolio for one holding: the quote is asked
\* of the holding's analyzer; when there is one, line 226 reads
\* portfolio_data[symbol], a name that is neither assigned in the method
\* nor bound in the module, and the NameError ends the block in its except
\* clause.  Lines 228 to 266 stand after that statement in the same block
\* and are reached by no run.
AnalyzeHolding(analyzer, net) ==
    LET r == get_real_time_data(analyzer, net)
    IN IF r.out.ret = None
       THEN [analyzer |-> r.self, out |-> Returned(None)]
       ELSE [analyzer |-> r.self, out |-> LoadGlobal("portfolio_data")]

\* stock_analysis: the entries of the holdings whose block stored one.
StockAnalysis(results) ==
    [s \in { t \in DOMAIN results :
                 ~IsRaised(results[t].out) /\ results[t].out.ret # None } |->
        results[s].out.ret]

\* portfolio_trends: the number of entries with each direction.
PortfolioTrends(stock_analysis) ==
    [d \in { "upward", "downward", "sideways", "unknown" } |->
        Cardinality({ s \in DOMAIN stock_analysis : stock_analysis[s].trend = d })]

\* total_value: the sum of abs(current_value) over the entries of the
\* symbols in S.
RECURSIVE TotalValue(_, _)
TotalValue(stock_analysis, S) ==
    IF S = { } THEN F(0)
    ELSE LET s == CHOOSE t \in S : TRUE
         IN FAdd(FAbs(stock_analysis[s].current_value),
                 TotalValue(stock_analysis, S \ { s }))

\* total_prediction: the sum of predicted_value over the entries of the
\* symbols in S.
RECURSIVE TotalPrediction(_, _)
TotalPrediction(stock_analysis, S) ==
    IF S = { } THEN F(0)
    ELSE LET s == CHOOSE t \in S : TRUE
         IN FAdd(stock_analysis[s].predicted_value,
                 TotalPrediction(stock_analysis, S \ { s }))

\* overall_trend
OverallTrend(trends) ==
    IF trends["upward"] > trends["downward"] + trends["sideways"] THEN "upward"
    ELSE IF trends["downward"] > trends["upward"] + trends["sideways"] THEN "downward"
    ELSE "sideways"

\* The summary analyze_portfolio builds after its loop.
PortfolioSummary(stock_analysis, total_value, total_prediction, trends) ==
    LET total_stocks ==
            trends["upward"] + trends["downward"] + trends["sideways"]
            + trends["unknown"]
    IN [total_value |-> total_value,
        total_prediction |-> total_prediction,
        portfolio_prediction_change |->
            IF FGt(total_value, F(0))
            THEN FMul(FDiv(FSub(total_prediction, total_value), total_value),
                      F(100 * SCALE))
            ELSE F(0),
        overall_trend |-> OverallTrend(trends),
        trend_percentages |->
            [d \in DOMAIN trends |->
                IF total_stocks > 0
                THEN FMul(FDiv(F(trends[d] * SCALE), F(total_stocks * SCALE)),
                          F(100 * SCALE))
                ELSE F(0)],
        stocks |-> stock_analysis]

\* analyze_portfolio once every holding's block has run.
SummaryOfResults(self, results) ==
    LET stock_analysis == StockAnalysis(results)
        summary ==
            PortfolioSummary(
                stock_analysis,
                TotalValue(stock_analysis, DOMAIN stock_analysis),
                TotalPrediction(stock_analysis, DOMAIN stock_analysis),
                PortfolioTrends(stock_analysis))
    IN [self |-> [self EXCEPT
                     !.stock_analyzers =
                         [s \in DOMAIN self.stock_analyzers \cup DOMAIN results |->
                             IF s \in DOMAIN results THEN results[s].analyzer
                             ELSE self.stock_analyzers[s]],
                     !.portfolio_summary = summary],
        out |-> Returned(summary)]

\* PortfolioAnalyzer.analyze_portfolio(prediction_days); nets[s] is what
\* the network answers the analyzer of symbol s.
analyze_portfolio(self, prediction_days, nets, pos) ==
    IF DOMAIN self.portfolio_data = { }
    THEN [self |-> self, out |-> Returned(None)]
    ELSE SummaryOfResults(
             self,
             [s \in DOMAIN self.portfolio_data |->
                 AnalyzeHolding(NewStockAnalyzer(s, pos), nets[s])])

\* The answers of the network to the analyzers of the symbols in S: a quote
\* or none for each (the history is not asked for).
PortfolioNetworks(S) ==
    [S -> [series : { None }, quote : NetworkQuotes, today : { FirstLastDate + 6 }]]

\* PortfolioAnalyzer(portfolio_data)
InitPortfolio ==
    /\ symbol = << >>
    /\ real_time_data_cache = None
    /\ historical_data_cache = None
    /\ predictive_data_cache = None
    /\ rng \in SeedPositions
    /\ fetch_rt_calls = 0
    /\ fetch_hist_calls = << >>
    /\ gen_calls = << >>
    /\ calls = 0
    /\ last = NoCall
    /\ input = None
    /\ other = None
    /\ alone = None
    /\ \E data \in Portfolios : portfolio = NewPortfolioAnalyzer(data)

LoadPortfolio ==
    /\ calls < MaxCalls
    /\ \E data \in Portfolios :
          /\ portfolio' = load_portfolio(portfolio, data)
          /\ last' = [NoCall EXCEPT !.op = "load_portfolio"]
    /\ calls' = calls + 1
    /\ UNCHANGED << symbol, real_time_data_cache, historical_data_cache,
                    predictive_data_cache, rng, fetch_rt_calls,
                    fetch_hist_calls, gen_calls, input, other, alone >>

AnalyzePortfolio ==
    /\ calls < MaxCalls
    /\ \E days \in DaysArgs, nets \in PortfolioNetworks(DOMAIN portfolio.portfolio_data) :
          LET r == analyze_portfolio(portfolio, days, nets, rng)
          IN /\ portfolio' = r.self
             /\ last' = [NoCall EXCEPT !.op = "analyze_portfolio",
                                       !.days = days, !.out = r.out]
    /\ calls' = calls + 1
    /\ UNCHANGED << symbol, real_time_data_cache, historical_data_cache,
                    predictive_data_cache, rng, fetch_rt_calls,
                    fetch_hist_calls, gen_calls, input, other, alone >>

NextPortfolio == LoadPortfolio \/ AnalyzePortfolio

SpecPortfolio == InitPortfolio /\ [][NextPortfolio]_vars

\* ------------------------------------------------------------------ properties

\* The calls that ask for a simulation batch.
SimulationOps ==
    { "get_predictive_data", "get_trend_analysis",
      "combine_historical_and_predictive" }

\* The rows of a combined frame with the given 'type'.
RowsOfType(df, type) == SelectSeq(df.rows, LAMBDA r : r.type = type)

\* The closes of the predictive rows of a combined frame.
PredictiveCloses(df) ==
    LET pr == RowsOfType(df, "predictive")
    IN [i \in 1..Len(pr) |-> pr[i].close]

\* C1: once a batch for d days is cached, every later simulation request
\* for the same d (get_predictive_data, get_trend_analysis or
\* combine_historical_and_predictive) leaves the cached batch as it is,
\* does not call generate_predictions, draws nothing from the generator,
\* and hands out that very batch.
C1_SameDaysReusesBatch ==
    [][ ( /\ calls' = calls + 1
          /\ last'.op \in SimulationOps
          /\ predictive_data_cache # None
          /\ Len(predictive_data_cache.prices) = last'.days )
        =>
        ( /\ predictive_data_cache' = predictive_data_cache
          /\ gen_calls' = gen_calls
          /\ last'.gens = 0
          /\ rng' = rng
          /\ (last'.op = "get_predictive_data"
                 => last'.out = Returned(predictive_data_cache))
          /\ (last'.op = "combine_historical_and_predictive"
                 => /\ ~IsRaised(last'.out)
                    /\ PredictiveCloses(last'.out.ret) =
                           predictive_data_cache.prices) )
      ]_vars

\* C1's case: the third call, a trend analysis or a combined series for the
\* cached horizon, made no call of generate_predictions.
C1_Witness ==
    /\ calls >= 3
    /\ last.op \in { "get_trend_analysis", "combine_historical_and_predictive" }
    /\ last.gens = 0
    /\ ~IsRaised(last.out)
    /\ Len(gen_calls) = 1
    /\ predictive_data_cache # None
    /\ Len(predictive_data_cache.prices) = last.days

\* C2 as claimed: generate_predictions runs at most once per distinct days
\* value over the object's lifetime.
C2_OncePerDistinctDays ==
    \A i, j \in 1..Len(gen_calls) : gen_calls[i] = gen_calls[j] => i = j

\* C2 as amended: generate_predictions runs only when the requested days
\* differs from the length of the cached batch, so two runs in a row are
\* never for the same days (and d1, d2, d1 makes three runs).
C2_NoRepeatedGeneration ==
    /\ \A i \in 1..(Len(gen_calls) - 1) : gen_calls[i] # gen_calls[i + 1]
    /\ Len(gen_calls) <= calls
    /\ (gen_calls # << >> =>
           /\ predictive_data_cache # None
           /\ Len(predictive_data_cache.prices) = gen_calls[Len(gen_calls)])

\* C2's case: d1, then d2, then d1 again, each generating.
C2_Witness ==
    /\ Len(gen_calls) = 3
    /\ gen_calls[1] = gen_calls[3]
    /\ gen_calls[1] # gen_calls[2]

\* C3: fetch_real_time_data is requested at most once in the object's
\* lifetime, also when the first request returned None.
C3_QuoteFetchedOnce == fetch_rt_calls <= 1

\* C4: fetch_historical_data is requested at most once, also when it
\* yielded an empty series; the cached series never changes, and every
\* get_historical_data call returns it.
C4_HistoryFetchedOnce ==
    [][ /\ Len(fetch_hist_calls') <= 1
        /\ (historical_data_cache # None =>
               /\ historical_data_cache' = historical_data_cache
               /\ fetch_hist_calls' = fetch_hist_calls)
        /\ (last'.op = "get_historical_data" =>
               last'.out = Returned(historical_data_cache'))
        /\ (historical_data_cache' # None => Len(fetch_hist_calls') = 1)
      ]_vars

\* C4's case: a get_historical_data call on an object whose one request
\* failed returns the empty series without a second request.
C4_Witness ==
    /\ last.op = "get_historical_data"
    /\ last.hist_fetches = 0
    /\ historical_data_cache = EmptyFrame
    /\ last.out = Returned(EmptyFrame)
    /\ Len(fetch_hist_calls) = 1

\* The call generate_predictions(input.historical_data, ...) has been made
\* on a history with at least one row.
GeneratedFromHistory ==
    /\ last.op = "generate_predictions"
    /\ input.historical_data # None
    /\ ~IsEmpty(input.historical_data)

\* C5: for days >= 1 and a non-empty history each of the five lists of the
\* batch has exactly days entries, in chronological order: the k-th close
\* is the previous close (the current price for the first) moved by the
\* k-th percentage change.
C5_BatchHasDaysPoints ==
    (GeneratedFromHistory /\ input.days >= 1) =>
        LET b == last.out.ret
        IN /\ Len(b.prices) = input.days
           /\ Len(b.percentage_changes) = input.days
           /\ Len(b.open_prices) = input.days
           /\ Len(b.high_prices) = input.days
           /\ Len(b.low_prices) = input.days
           /\ \A k \in 1..Len(b.prices) :
                  b.prices[k] =
                      FMul(IF k = 1 THEN input.current_price ELSE b.prices[k - 1],
                           FAdd(F(SCALE),
                                FDiv(b.percentage_changes[k], F(100 * SCALE))))

\* C5's case: a batch for the largest horizon from a history with returns.
C5_Witness ==
    /\ GeneratedFromHistory
    /\ input.days = MaxEngineDays
    /\ Len(input.historical_data.rows) = 3
    /\ Len(last.out.ret.prices) = MaxEngineDays
    /\ IsNum(last.out.ret.prices[MaxEngineDays])

\* C6: for a history that is None or empty, generate_predictions returns
\* the empty batch whatever the price and the horizon, takes no draw from
\* the generator, and does not raise.
C6_NoHistoryGivesEmptyBatch ==
    ( /\ last.op = "generate_predictions"
      /\ (input.historical_data = None \/ IsEmpty(input.historical_data)) )
    => /\ last.out = Returned(EmptyBatch)
       /\ rng = input.seed

\* C6's case: an empty history with a positive price and horizon.
C6_Witness ==
    /\ last.op = "generate_predictions"
    /\ input.historical_data = EmptyFrame
    /\ input.days >= 1
    /\ input.current_price # F(0)
    /\ last.out = Returned(EmptyBatch)

\* The history given to analyze_trend is None or empty, or the batch given
\* to it has no prices.
NothingToAnalyze ==
    \/ input.trend_history = None
    \/ IsEmpty(input.trend_history)
    \/ (input.prediction_data # None /\ input.prediction_data.prices = << >>)

\* C7: analyze_trend returns exactly the neutral default when the history
\* is empty or the batch has no prices, and returns the direction
\* 'unknown' in no other case.
C7_NeutralExactlyWhenNoData ==
    last.op = "analyze_trend" =>
        /\ (NothingToAnalyze => last.out = Returned(NeutralTrend))
        /\ ((~IsRaised(last.out) /\ last.out.ret.trend_direction = "unknown")
               => NothingToAnalyze)

\* C7's cases: a history with rows and a batch without prices.
C7_Witness ==
    /\ last.op = "analyze_trend"
    /\ input.trend_history # None
    /\ ~IsEmpty(input.trend_history)
    /\ input.prediction_data = EmptyBatch
    /\ last.out = Returned(NeutralTrend)

\* The values that stand for "no data".
NoDataValues == { None, EmptyBatch, NeutralTrend }

\* C8: get_predictive_data, get_trend_analysis and
\* combine_historical_and_predictive never raise, and return a no-data
\* value when the quote or the history is missing.
C8_NeverRaises ==
    last.op \in SimulationOps =>
        /\ ~IsRaised(last.out)
        /\ ( (real_time_data_cache = None \/ IsEmpty(historical_data_cache))
                => last.out.ret \in NoDataValues )

\* The self.symbol ends with '.X' or with '-USD'.
ContinuousMarket ==
    LET n == Len(symbol)
    IN \/ n >= 2 /\ symbol[n - 1] = "." /\ symbol[n] = "X"
       \/ n >= 4 /\ symbol[n - 3] = "-" /\ symbol[n - 2] = "U"
                 /\ symbol[n - 1] = "S" /\ symbol[n] = "D"

\* combine_historical_and_predictive has returned a combined series.
Combined ==
    last.op = "combine_historical_and_predictive" /\ ~IsRaised(last.out)

\* The date of the last historical row of the combined series.
LastHistoricalDate ==
    LET hr == RowsOfType(last.out.ret, "historical") IN hr[Len(hr)].date

\* The dates of the predictive rows of the combined series.
SimulatedDates ==
    LET pr == RowsOfType(last.out.ret, "predictive")
    IN [i \in 1..Len(pr) |-> pr[i].date]

\* C9: the simulated points' dates are strictly increasing, the first is
\* after the last historical date, and for a symbol ending with neither
\* '.X' nor '-USD' none is a Saturday or a Sunday.
C9_DatesIncreaseAndSkipWeekends ==
    Combined =>
        /\ Len(SimulatedDates) = last.days
        /\ \A i \in 1..(Len(SimulatedDates) - 1) :
               SimulatedDates[i] < SimulatedDates[i + 1]
        /\ SimulatedDates[1] > LastHistoricalDate
        /\ (~ContinuousMarket =>
               \A i \in 1..Len(SimulatedDates) :
                   (SimulatedDates[i] + 6) % 7 \notin { 5, 6 })

\* C9's case: a stock whose history ends on a Friday: the first simulated
\* date is the Monday after.
C9_Witness ==
    /\ Combined
    /\ ~ContinuousMarket
    /\ (LastHistoricalDate + 6) % 7 = 4
    /\ Len(SimulatedDates) = 2
    /\ SimulatedDates[1] = LastHistoricalDate + 3

\* C10: for a symbol ending with '.X' or '-USD' the i-th simulated date is
\* the last historical date plus i days; for any other symbol the dates
\* are exactly the next n Monday-to-Friday days after it.
C10_CalendarOrBusinessDays ==
    Combined =>
        LET n == Len(predictive_data_cache.prices)
            ds == SimulatedDates
        IN /\ Len(ds) = n
           /\ IF ContinuousMarket
              THEN \A i \in 1..n : ds[i] = LastHistoricalDate + i
              ELSE /\ \A i \in 1..n : (ds[i] + 6) % 7 < 5
                   /\ \A d \in (LastHistoricalDate + 1)..ds[n] :
                          (d + 6) % 7 < 5 => \E i \in 1..n : ds[i] = d
                   /\ \A i, j \in 1..n : i < j => ds[i] < ds[j]
                   /\ ds[1] > LastHistoricalDate

\* C10's case: a round-the-clock asset whose history ends on a Friday: the
\* simulated dates are the Saturday and the Sunday.
C10_Witness ==
    /\ Combined
    /\ ContinuousMarket
    /\ (LastHistoricalDate + 6) % 7 = 4
    /\ Len(SimulatedDates) = 2
    /\ (SimulatedDates[2] + 6) % 7 = 6

\* analyze_trend has returned a summary.
Analyzed == last.op = "analyze_trend" /\ ~IsRaised(last.out)

\* analyze_trend has returned a summary of a history with rows and a batch
\* with prices.
AnalyzedData == Analyzed /\ ~NothingToAnalyze

\* C11: whatever the history and the batch, the rsi of the summary
\* analyze_trend returns is a number between 0 and 100.
C11_RsiWithinBounds ==
    Analyzed =>
        LET rsi == last.out.ret.momentum_indicators.rsi
        IN /\ rsi.k = "num"
           /\ rsi.v >= 0
           /\ rsi.v <= 100 * SCALE

\* C11's case: a history and a batch with both gains and losses, and more
\* gains than losses: an rsi strictly between 50 and 100.
C11_Witness ==
    /\ AnalyzedData
    /\ last.out.ret.momentum_indicators.rsi.k = "num"
    /\ last.out.ret.momentum_indicators.rsi.v > 50 * SCALE
    /\ last.out.ret.momentum_indicators.rsi.v < 100 * SCALE

\* The historical volatility of the history analyze_trend was given.
AnalyzedVolatility ==
    LET xs == [i \in 1..Len(input.trend_history.rows) |->
                  input.trend_history.rows[i].close]
        rs == [i \in 1..(Len(xs) - 1) |->
                  FSub(FDiv(xs[i + 1], xs[i]), F(SCALE))]
    IN IF Len(rs) = 0 THEN NaN
       ELSE F(ISqrt(SumSqDev(rs, Mean(rs)) \div Len(rs)))

\* The batch analyze_trend was given has two or more closes, all finite, so
\* that its least-squares slope is defined.
SlopeDefined ==
    /\ Len(input.prediction_data.prices) >= 2
    /\ \A i \in 1..Len(input.prediction_data.prices) :
           input.prediction_data.prices[i].k = "num"

\* C12: whatever the history and the batch, the strength of the summary is
\* a number between 0 and 100; for a positive volatility it is the clamped
\* ratio: 100 once |slope| reaches 10 times the volatility, 0 for slope 0.
C12_StrengthWithinBounds ==
    Analyzed =>
        LET st == last.out.ret.strength
        IN /\ st.k = "num"
           /\ st.v >= 0
           /\ st.v <= 100 * SCALE
           /\ (AnalyzedData /\ SlopeDefined /\ AnalyzedVolatility.k = "num"
                   /\ AnalyzedVolatility.v > 0) =>
                  LET num == SlopeNum(input.prediction_data.prices)
                      den == SlopeDen(input.prediction_data.prices)
                  IN /\ (Abs(num) >= 10 * AnalyzedVolatility.v * den
                            => st.v = 100 * SCALE)
                     /\ (num = 0 => st.v = 0)
                     /\ (Abs(num) * 20 < 10 * AnalyzedVolatility.v * den
                            => st.v < 100 * SCALE)

\* C12's case: a slope below 10 times a positive volatility: a strength
\* strictly between 0 and 100.
C12_Witness ==
    /\ AnalyzedData
    /\ SlopeDefined
    /\ AnalyzedVolatility.k = "num"
    /\ AnalyzedVolatility.v > 0
    /\ last.out.ret.strength.v > 0
    /\ last.out.ret.strength.v < 100 * SCALE

\* The history analyze_trend was given has two or more rows and every close
\* is the same, so that its volatility is 0.
FlatHistory ==
    /\ Len(input.trend_history.rows) >= 2
    /\ \A i \in 1..Len(input.trend_history.rows) :
           input.trend_history.rows[i].close = input.trend_history.rows[1].close

\* The values C13 gives: for a flat history strength is 100 for a slope
\* other than 0 and 0 for slope 0, and for closes 50, price 50 and 3 days
\* the support is 49 and the resistance 51.
C13_ValuesOnly ==
    (AnalyzedData /\ FlatHistory /\ SlopeDefined) =>
        /\ last.out.ret.strength =
               (IF SlopeNum(input.prediction_data.prices) # 0
                THEN F(100 * SCALE) ELSE F(0))
        /\ ( ( /\ input.trend_history.rows[1].close = F(50 * SCALE)
               /\ input.current_price = F(50 * SCALE)
               /\ input.days = 3
               /\ input.prediction_data.prices # << >>
               /\ input.prediction_data \notin TrendBatches )
             => /\ last.out.ret.support_level = F(49 * SCALE)
                /\ last.out.ret.resistance_level = F(51 * SCALE) )

\* C13: for a flat history analyze_trend divides by no zero (the divisor
\* of the normalised slope, volatility * 10, is not 0), and strength,
\* support and resistance have the values above.
C13_FlatHistoryNoDivisionByZero ==
    /\ ( (AnalyzedData /\ FlatHistory /\ SlopeDefined)
            => NormDivisor(AnalyzedVolatility) # F(0) )
    /\ C13_ValuesOnly

\* C14: generate_predictions is deterministic given its random source (the
\* batch is the one its arguments and the draws from the seed position
\* give), and that source is a dependency handed to the engine, not the
\* process-wide generator: the engine being constructed without one, the
\* batch is the same whatever state the process-wide generator is in.
C14_IndependentOfAmbientGenerator ==
    (GeneratedFromHistory /\ input.days >= 1) =>
        /\ last.out.ret =
               PredictLoop(EmptyBatch, input.days, input.current_price,
                           HistoryStats(input.historical_data), input.seed).batch
        /\ \A pos \in RngPositions :
               generate_predictions(input.historical_data, input.current_price,
                                    input.days, pos).batch = last.out.ret

\* a <= b on floats: False whenever an operand is NaN.
Leq(a, b) == a.k # "nan" /\ b.k # "nan" /\ ~FGt(a, b)

\* The k-th point of a batch is ordered:
\* low <= min(open, close) <= max(open, close) <= high.
OhlcOrdered(b, k) ==
    /\ Leq(b.low_prices[k], b.open_prices[k])
    /\ Leq(b.low_prices[k], b.prices[k])
    /\ Leq(b.open_prices[k], b.high_prices[k])
    /\ Leq(b.prices[k], b.high_prices[k])

\* The k-th point of a batch holds numbers only.
PointIsFinite(b, k) ==
    /\ b.prices[k].k = "num"
    /\ b.open_prices[k].k = "num"
    /\ b.high_prices[k].k = "num"
    /\ b.low_prices[k].k = "num"

\* C15: for a history with high >= low and positive closes and a positive
\* current price, every point generate_predictions produces (here: every
\* point made of numbers) is ordered, also when a draw makes the daily
\* return less than -1 and the new close negative.
C15_OhlcOrdered ==
    (GeneratedFromHistory /\ FGt(input.current_price, F(0))) =>
        \A k \in 1..Len(last.out.ret.prices) :
            PointIsFinite(last.out.ret, k) => OhlcOrdered(last.out.ret, k)

\* Every point with a close that is not negative is ordered.
OhlcOrderedUnlessNegative ==
    (GeneratedFromHistory /\ FGt(input.current_price, F(0))) =>
        \A k \in 1..Len(last.out.ret.prices) :
            (PointIsFinite(last.out.ret, k) /\ last.out.ret.prices[k].v >= 0)
                => OhlcOrdered(last.out.ret, k)

\* C16: two StockAnalyzer objects share no mutable state: whatever calls
\* are made on the second object in between, each simulation call on the
\* first returns what it returns in the run without them (same upstream
\* data, same seed), and leaves the same batch cached.
C16_OtherObjectHasNoInfluence ==
    last.op \in SimulationOps =>
        /\ last.out = alone.out
        /\ predictive_data_cache = alone.self.predictive_data_cache

\* The holdings whose analyzer has a quote.
QuotedHoldings ==
    { s \in DOMAIN portfolio.portfolio_data :
          /\ s \in DOMAIN portfolio.stock_analyzers
          /\ portfolio.stock_analyzers[s].real_time_data_cache # None }

\* The sum over the symbols in S of |price * quantity|, in fixed-point units.
RECURSIVE HoldingsValue(_)
HoldingsValue(S) ==
    IF S = { } THEN 0
    ELSE LET s == CHOOSE t \in S : TRUE
             price == portfolio.stock_analyzers[s].real_time_data_cache.price.v
             quantity == portfolio.portfolio_data[s].v
         IN (IF price * quantity < 0 THEN -(price * quantity) ELSE price * quantity)
                \div SCALE
            + HoldingsValue(S \ { s })

\* C17: analyze_portfolio on a non-empty portfolio returns a summary whose
\* 'stocks' has an entry for every symbol with a quote, whose total_value
\* is the sum of |price * quantity| over those symbols, and whose trend
\* counts add up to the number of those symbols (the four percentages to
\* 100 when there is one).
C17_PortfolioSummary ==
    (last.op = "analyze_portfolio" /\ DOMAIN portfolio.portfolio_data # { }) =>
        /\ last.out # Returned(None)
        /\ DOMAIN last.out.ret.stocks = QuotedHoldings
        /\ last.out.ret.total_value = F(HoldingsValue(QuotedHoldings))
        /\ (QuotedHoldings # { } =>
               LET pc == last.out.ret.trend_percentages
               IN pc["upward"].v + pc["downward"].v + pc["sideways"].v
                  + pc["unknown"].v >= 99 * SCALE)

\* Every normal draw the call took (two for each predicted day) is 0.
ZeroDraws ==
    \A k \in 0..(input.days - 1) :
        /\ StdNormal(RngRaw(input.seed, 3 * k)) = F(0)
        /\ StdNormal(RngRaw(input.seed, 3 * k + 1)) = F(0)

\* mu: the mean of the history's daily returns.
MeanHistoricalReturn == Mean(PctChange(Column(input.historical_data, "close")))

\* The history of 20 closes 100, 101, ... 119.
RisingHistory ==
    /\ Len(input.historical_data.rows) = 20
    /\ \A i \in 1..20 : input.historical_data.rows[i].close = F((99 + i) * SCALE)

\* Every close of the batch follows from the one before it (the current
\* price for the first) by the return mu, and every percentage change is
\* mu * 100.
FollowsMeanReturn(b, mu) ==
    \A k \in 1..Len(b.prices) :
        /\ b.percentage_changes[k] = FMul(mu, F(100 * SCALE))
        /\ b.prices[k] =
               FMul(IF k = 1 THEN input.current_price ELSE b.prices[k - 1],
                    FAdd(F(SCALE), mu))

\* C18: when every normal draw is 0 and the history has a mean return mu,
\* the closes are current_price * (1 + mu)^k and every percentage change is
\* mu * 100; for the 20 closes 100..119, current price 119 and 5 days the
\* closes increase strictly and analyze_trend reports 'upward'.
C18_ZeroDrawsFollowMeanReturn ==
    (GeneratedFromHistory /\ input.days >= 1 /\ ZeroDraws
         /\ IsNum(MeanHistoricalReturn)) =>
        /\ Len(last.out.ret.prices) = input.days
        /\ FollowsMeanReturn(last.out.ret, MeanHistoricalReturn)
        /\ (RisingHistory /\ input.current_price = F(119 * SCALE)
                /\ input.days = 5) =>
               /\ \A k \in 1..5 :
                      FGt(last.out.ret.prices[k],
                          IF k = 1 THEN input.current_price
                          ELSE last.out.ret.prices[k - 1])
               /\ \A o \in analyze_trend(input.historical_data, last.out.ret) :
                      /\ ~IsRaised(o)
                      /\ o.ret.trend_direction = "upward"

\* The same for the histories whose returns have a sample deviation (three
\* rows or more).
ZeroDrawsFollowMeanReturnGivenDeviation ==
    (GeneratedFromHistory /\ Len(input.historical_data.rows) >= 3)
        => C18_ZeroDrawsFollowMeanReturn

\* The step is a call of the given operation.
CallOf(op) == calls' = calls + 1 /\ last'.op = op

\* The last call was a get_trend_analysis that got its batch: it returned a
\* summary, or the fit of analyze_trend raised.
TrendAnalysed ==
    /\ last.op = "get_trend_analysis"
    /\ last.out # Raised("TypeError")

\* C19: get_trend_analysis stores no result of its own.  Every call that
\* gets its batch yields analyze_trend of the cached history and of the
\* batch get_predictive_data(days) returned, which is the stored one; a
\* get_trend_analysis(d) right after it generates nothing and analyses the
\* same history and batch, with an equal summary wherever analyze_trend has
\* one outcome; a get_predictive_data(d) right after it returns that batch.
C19_TrendRecomputedFromStoredBatch ==
    [][ /\ (CallOf("get_trend_analysis") /\ last'.out # Raised("TypeError"))
            => last'.out \in analyze_trend(historical_data_cache',
                                           predictive_data_cache')
        /\ (TrendAnalysed /\ CallOf("get_trend_analysis")
                /\ last'.days = last.days)
            => /\ last'.gens = 0
               /\ historical_data_cache' = historical_data_cache
               /\ predictive_data_cache' = predictive_data_cache
               /\ last'.out \in analyze_trend(historical_data_cache,
                                              predictive_data_cache)
               /\ (~IsRaised(last.out) /\ ~IsRaised(last'.out))
                      => last'.out = last.out
        /\ (TrendAnalysed /\ CallOf("get_predictive_data")
                /\ last'.days = last.days)
            => /\ last'.gens = 0
               /\ last'.out = Returned(predictive_data_cache)
               /\ predictive_data_cache' = predictive_data_cache
      ]_vars

\* C19's case: a get_trend_analysis(d) that generated nothing and returned
\* the summary of the stored batch of d points, d being 2 or more.
C19_Witness ==
    /\ last.op = "get_trend_analysis"
    /\ ~IsRaised(last.out)
    /\ last.out.ret # NeutralTrend
    /\ last.gens = 0
    /\ last.days >= 2
    /\ predictive_data_cache # None
    /\ Len(predictive_data_cache.prices) = last.days
    /\ last.out \in analyze_trend(historical_data_cache, predictive_data_cache)

\* The columns of a fetched series.
HistoryColumns == { "date", "open", "high", "low", "close" }

\* Every row of the series has the columns of a fetched series and no other.
HasHistoryColumns(df) ==
    \A i \in 1..Len(df.rows) : DOMAIN df.rows[i] = HistoryColumns

\* C20: the cached history is never changed after it is fetched.  A call of
\* get_predictive_data, get_trend_analysis or
\* combine_historical_and_predictive leaves a cached series as it was, rows
\* and columns (no 'type' column, no predictive rows), also when the call
\* itself fetched it, and a get_historical_data call made afterwards
\* returns the series as it was before.
C20_CachedHistoryNeverChanged ==
    [][ /\ (calls' = calls + 1 /\ last'.op \in SimulationOps)
            => /\ (historical_data_cache # None
                      => historical_data_cache' = historical_data_cache)
               /\ historical_data_cache' # None
                      => HasHistoryColumns(historical_data_cache')
        /\ (CallOf("get_historical_data") /\ historical_data_cache # None)
            => /\ last'.out = Returned(historical_data_cache)
               /\ HasHistoryColumns(last'.out.ret)
      ]_vars

\* C20's case: combine_historical_and_predictive has returned a frame with
\* tagged historical rows and appended predictive rows, and the cached
\* series has its rows and columns only.
C20_Witness ==
    /\ last.op = "combine_historical_and_predictive"
    /\ ~IsRaised(last.out)
    /\ historical_data_cache # None
    /\ Len(historical_data_cache.rows) >= 2
    /\ HasHistoryColumns(historical_data_cache)
    /\ Len(RowsOfType(last.out.ret, "historical")) = Len(historical_data_cache.rows)
    /\ Len(RowsOfType(last.out.ret, "predictive")) = last.days
    /\ Len(last.out.ret.rows) > Len(historical_data_cache.rows)

\* The recursive exponential average of the first n values of xs, in
\* fixed-point units: e_1 = xs[1], e_t = alpha * xs[t] + (1 - alpha) * e_(t-1)
\* with alpha = 2 / (span + 1).
RECURSIVE EmaRecursive(_, _, _)
EmaRecursive(xs, span, n) ==
    IF n = 1 THEN xs[1].v
    ELSE TDiv(2 * xs[n].v + (span - 1) * EmaRecursive(xs, span, n - 1), span + 1)

\* The closes of the history analyze_trend was given.
AnalyzedCloses == Column(input.trend_history, "close")

\* EMA12 - EMA26 of the analysed closes at the last point, the averages
\* being the recursive ones.
RecursiveMacd ==
    EmaRecursive(AnalyzedCloses, MacdFast, Len(AnalyzedCloses))
        - EmaRecursive(AnalyzedCloses, MacdSlow, Len(AnalyzedCloses))

\* The macd of the summary is the same for every batch with prices.
MacdIndependentOfBatch ==
    AnalyzedData =>
        \A p \in TrendBatches :
            \A o \in analyze_trend(input.trend_history, p) :
                ~IsRaised(o) =>
                    o.ret.momentum_indicators.macd
                        = last.out.ret.momentum_indicators.macd

\* C21: the macd of the summary is EMA12 - EMA26 of all historical closes
\* at the last historical point, each EMA being the recursive average
\* seeded from the first close (equal here means within 0.05, far more than
\* the rounding of the fixed-point arithmetic), and it does not depend on
\* the batch.
C21_MacdIsRecursiveEma ==
    (AnalyzedData /\ AllFinite(AnalyzedCloses)) =>
        /\ last.out.ret.momentum_indicators.macd.k = "num"
        /\ Abs(last.out.ret.momentum_indicators.macd.v - RecursiveMacd)
               <= SCALE \div 20
        /\ MacdIndependentOfBatch

\* The simulated closes analyze_trend was given.
AnalyzedPrices == input.prediction_data.prices

\* C22: for a history with rows and a batch with prices the direction of
\* the summary is 'upward' exactly when the least-squares slope of the
\* simulated closes against their index is above 0.001, 'downward' exactly
\* when it is below -0.001 and 'sideways' otherwise, a slope of exactly
\* 0.001 or -0.001 and a batch without a slope included: a function of the
\* simulated closes alone, whatever the history.
C22_DirectionFromSlopeOfSimulation ==
    AnalyzedData =>
        /\ last.out.ret.trend_direction \in { "upward", "downward", "sideways" }
        /\ SlopeDefined =>
               /\ last.out.ret.trend_direction = "upward"
                      <=> SlopeNum(AnalyzedPrices)
                              > SlopeDen(AnalyzedPrices) * (SCALE \div 1000)
               /\ last.out.ret.trend_direction = "downward"
                      <=> SlopeNum(AnalyzedPrices)
                              < -(SlopeDen(AnalyzedPrices) * (SCALE \div 1000))
        /\ ~SlopeDefined => last.out.ret.trend_direction = "sideways"

\* C22's case: a batch whose slope is exactly 0.001, reported sideways.
C22_Witness ==
    /\ AnalyzedData
    /\ SlopeDefined
    /\ SlopeNum(AnalyzedPrices) = SlopeDen(AnalyzedPrices) * (SCALE \div 1000)
    /\ last.out.ret.trend_direction = "sideways"

\* The last 20 closes of the analysed history (all of them when there are
\* fewer) followed by the simulated closes.
AnalyzedWindow ==
    [i \in 1..(IF Len(AnalyzedCloses) > 20 THEN 20 ELSE Len(AnalyzedCloses)) |->
        AnalyzedCloses[Len(AnalyzedCloses)
                           - (IF Len(AnalyzedCloses) > 20 THEN 20
                              ELSE Len(AnalyzedCloses)) + i]]
        \o AnalyzedPrices

\* x is the least, or the greatest, of the finite values xs.
IsLeast(x, xs) ==
    (\E i \in 1..Len(xs) : xs[i] = x) /\ \A i \in 1..Len(xs) : xs[i].v >= x.v

IsGreatest(x, xs) ==
    (\E i \in 1..Len(xs) : xs[i] = x) /\ \A i \in 1..Len(xs) : xs[i].v <= x.v

\* The support and the resistance of the summary are 0.98 times the least
\* and 1.02 times the greatest of the finite values w, and lie below and
\* above every one of them when all are positive.
LevelsOfWindow(w) ==
    /\ \E lo \in { w[i] : i \in 1..Len(w) } :
           /\ IsLeast(lo, w)
           /\ last.out.ret.support_level = F(TDiv(lo.v * 98, 100))
    /\ \E hi \in { w[i] : i \in 1..Len(w) } :
           /\ IsGreatest(hi, w)
           /\ last.out.ret.resistance_level = F(TDiv(hi.v * 102, 100))
    /\ (\A i \in 1..Len(w) : w[i].v > 0) =>
           \A i \in 1..Len(w) :
               /\ last.out.ret.support_level.v <= w[i].v
               /\ w[i].v <= last.out.ret.resistance_level.v

\* C23: the support level is 0.98 times the minimum, and the resistance
\* level 1.02 times the maximum, of the last 20 historical closes (all of
\* them when fewer) together with all simulated closes, so that older
\* closes have no influence; and when all those closes are positive the
\* support is at most, and the resistance at least, every one of them.
C23_SupportAndResistance ==
    AnalyzedData =>
        \A w \in { AnalyzedWindow } : AllFinite(w) => LevelsOfWindow(w)

\* C23's case: a history of more than 20 closes whose oldest close is above
\* every later close and every simulated close, and a resistance level
\* below it.
C23_Witness ==
    /\ AnalyzedData
    /\ Len(AnalyzedCloses) > 20
    /\ AllFinite(AnalyzedWindow)
    /\ \A i \in 1..Len(AnalyzedWindow) : AnalyzedWindow[i].v < AnalyzedCloses[1].v
    /\ last.out.ret.resistance_level.v < AnalyzedCloses[1].v
    /\ last.out.ret.support_level.v > 0

\* The sum of the rises, and of the falls, between consecutive values of w,
\* in fixed-point units.
RECURSIVE Rises(_, _)
Rises(w, n) ==
    IF n <= 1 THEN 0
    ELSE (IF w[n].v > w[n - 1].v THEN w[n].v - w[n - 1].v ELSE 0) + Rises(w, n - 1)

RECURSIVE Falls(_, _)
Falls(w, n) ==
    IF n <= 1 THEN 0
    ELSE (IF w[n].v < w[n - 1].v THEN w[n - 1].v - w[n].v ELSE 0) + Falls(w, n - 1)

\* The rsi of the summary is the one of the finite values w: 100 when
\* nothing falls, else 100 - 100 / (1 + gains / losses).
RsiOfWindow(w) ==
    last.out.ret.momentum_indicators.rsi =
        (IF Falls(w, Len(w)) = 0 THEN F(100 * SCALE)
         ELSE F(100 * SCALE
                  - TDiv(100 * SCALE * SCALE,
                         SCALE + TDiv(Rises(w, Len(w)) * SCALE, Falls(w, Len(w))))))

\* C24: the rsi of the summary is computed from the first differences of
\* the last 20 historical closes followed by the simulated closes, the
\* difference across the boundary included: it is 100 whenever the sum of
\* the negative differences is 0, also when every difference is 0, and
\* 100 - 100 / (1 + gains / losses) otherwise.
C24_RsiOfDifferences ==
    AnalyzedData =>
        \A w \in { AnalyzedWindow } : AllFinite(w) => RsiOfWindow(w)

\* C24's case: the history and the batch are each flat and the only
\* difference is the fall across the boundary between them: an rsi of 0.
C24_Witness ==
    /\ AnalyzedData
    /\ AllFinite(AnalyzedWindow)
    /\ \A i \in 1..Len(AnalyzedCloses) : AnalyzedCloses[i] = AnalyzedCloses[1]
    /\ \A i \in 1..Len(AnalyzedPrices) : AnalyzedPrices[i] = AnalyzedPrices[1]
    /\ AnalyzedPrices[1].v < AnalyzedCloses[1].v
    /\ last.out.ret.momentum_indicators.rsi = F(0)

\* Every difference is 0, and the rsi is 100.
FlatWindowRsi ==
    /\ AnalyzedData
    /\ \A i \in 1..Len(AnalyzedWindow) : AnalyzedWindow[i] = AnalyzedWindow[1]
    /\ last.out.ret.momentum_indicators.rsi = F(100 * SCALE)

\* analyze_trend has been called with a history with rows and a batch with
\* prices, every close of both being a number.
AnalyzeCalledOnData ==
    /\ last.op = "analyze_trend"
    /\ ~NothingToAnalyze
    /\ input.prediction_data # None
    /\ AllFinite(AnalyzedCloses)
    /\ AllFinite(AnalyzedPrices)

\* The summary returned has a direction and finite values.
FiniteSummary(t) ==
    /\ t.trend_direction \in { "upward", "downward", "sideways" }
    /\ IsNum(t.strength)
    /\ IsNum(t.support_level)
    /\ IsNum(t.resistance_level)
    /\ IsNum(t.momentum_indicators.rsi)
    /\ IsNum(t.momentum_indicators.macd)

\* The call returned a finite summary, and the slope of the simulated
\* closes and the volatility of the history it used are numbers.
FiniteTrend ==
    /\ ~IsRaised(last.out)
    /\ FiniteSummary(last.out.ret)
    /\ \A o \in Polyfit(AnalyzedPrices) : ~IsRaised(o) /\ IsNum(o.ret)
    /\ IsNum(AnalyzedVolatility)

\* C25: for every history with rows and every batch with one price or
\* more, a batch of a single point and a history of a single observation
\* included, analyze_trend returns a direction among upward, downward and
\* sideways and finite strength, support, resistance, rsi and macd, and no
\* undefined value comes from the slope fit or from the volatility.
C25_FiniteTrendForDegenerateInputs == AnalyzeCalledOnData => FiniteTrend

\* The same for the histories of two observations or more and the batches
\* of two points or more.
FiniteTrendGivenTwoPoints ==
    (AnalyzeCalledOnData /\ Len(AnalyzedCloses) >= 2 /\ Len(AnalyzedPrices) >= 2)
        => FiniteTrend

\* Every value of the batch is a number.
FiniteBatch(b) ==
    /\ AllFinite(b.prices)
    /\ AllFinite(b.percentage_changes)
    /\ AllFinite(b.open_prices)
    /\ AllFinite(b.high_prices)
    /\ AllFinite(b.low_prices)

\* C26: for every history with rows, one with a single observation
\* included, every open, high, low, close and percentage change
\* generate_predictions returns is a finite number.
C26_FiniteBatchForEveryHistory ==
    GeneratedFromHistory => FiniteBatch(last.out.ret)

\* The same for the histories of three rows or more with positive closes:
\* those whose returns have a mean and a sample deviation.
FiniteBatchGivenDeviation ==
    (GeneratedFromHistory /\ Len(input.historical_data.rows) >= 3)
        => FiniteBatch(last.out.ret)

\* The combined series returned for a cached history with rows.
CombinedWithHistory ==
    /\ Combined
    /\ historical_data_cache # None
    /\ ~IsEmpty(historical_data_cache)
    /\ last.days >= 1

\* The row is the point i of the batch b, tagged 'predictive'.
IsPredictiveRow(row, b, i) ==
    /\ row.type = "predictive"
    /\ row.open = b.open_prices[i]
    /\ row.high = b.high_prices[i]
    /\ row.low = b.low_prices[i]
    /\ row.close = b.prices[i]

\* C27: for a history with rows and days >= 1,
\* combine_historical_and_predictive(days) returns len(history) + days
\* rows: first every historical row, in its order, tagged 'historical',
\* then exactly days rows tagged 'predictive' whose open, high, low and
\* close are those of the cached batch, in its order.
C27_CombinedSeriesRows ==
    CombinedWithHistory =>
        \A n \in { Len(historical_data_cache.rows) } :
            /\ Len(last.out.ret.rows) = n + last.days
            /\ Len(predictive_data_cache.prices) = last.days
            /\ \A i \in 1..n :
                   last.out.ret.rows[i]
                       = Tagged(historical_data_cache.rows[i], "historical")
            /\ \A i \in 1..last.days :
                   IsPredictiveRow(last.out.ret.rows[n + i],
                                   predictive_data_cache, i)

\* C27's case: a history of two rows or more combined with a batch of two
\* points or more whose opens differ from its closes.
C27_Witness ==
    /\ CombinedWithHistory
    /\ Len(historical_data_cache.rows) >= 2
    /\ last.days >= 2
    /\ Len(last.out.ret.rows) = Len(historical_data_cache.rows) + last.days
    /\ IsNum(predictive_data_cache.prices[2])
    /\ predictive_data_cache.open_prices[2] # predictive_data_cache.prices[2]
    /\ last.out.ret.rows[Len(last.out.ret.rows)].type = "predictive"
    /\ last.out.ret.rows[1].type = "historical"

\* C28: the history window of a StockAnalyzer is fixed at 30 days: whatever
\* days argument callers pass to get_historical_data and whichever method
\* is called first, the one request made of the provider is for 30 days.
C28_HistoryWindowIsThirtyDays ==
    /\ Len(fetch_hist_calls) <= 1
    /\ \A i \in 1..Len(fetch_hist_calls) : fetch_hist_calls[i] = HistoryDays

\* The request is for 30 days whenever it is made by a call other than a
\* get_historical_data with a days argument of its own.
ThirtyDaysUnlessAsked ==
    [][ (Len(fetch_hist_calls') > Len(fetch_hist_calls)
            /\ ~(last'.op = "get_historical_data" /\ last'.days # HistoryDays))
          => fetch_hist_calls' = << HistoryDays >> ]_vars

\* The step is a get_trend_analysis or a
\* combine_historical_and_predictive call.
TrendOrCombineCall ==
    CallOf("get_trend_analysis") \/ CallOf("combine_historical_and_predictive")

\* The three caches are as they were.
CachesUnchanged ==
    /\ real_time_data_cache' = real_time_data_cache
    /\ historical_data_cache' = historical_data_cache
    /\ predictive_data_cache' = predictive_data_cache

\* The cached batch is replaced by the one generated for d days from the
\* cached history and quote.
BatchReplaced(d) ==
    /\ last'.gens = 1
    /\ Len(predictive_data_cache'.prices) = d
    /\ predictive_data_cache' =
           generate_predictions(historical_data_cache,
                                real_time_data_cache.price, d, rng).batch
    /\ rng' = RngAdvance(rng, 3 * d)
    /\ historical_data_cache' = historical_data_cache
    /\ real_time_data_cache' = real_time_data_cache

\* C29: get_trend_analysis(d) and combine_historical_and_predictive(d) are
\* not read-only with respect to the simulation cache: with a history with
\* rows and a cached batch of another length than d they replace the
\* cached batch by a newly generated one of length d, and with a cached
\* batch of length d they leave all three caches unchanged.
C29_TrendAndCombineRegenerate ==
    [][ (TrendOrCombineCall /\ predictive_data_cache # None)
          => /\ historical_data_cache # None /\ ~IsEmpty(historical_data_cache)
             /\ IF last'.days # Len(predictive_data_cache.prices)
                THEN BatchReplaced(last'.days)
                ELSE CachesUnchanged /\ last'.gens = 0 /\ rng' = rng
      ]_vars

\* C29's case: a get_trend_analysis or combine_historical_and_predictive
\* call has replaced a batch generated for another horizon.
C29_Witness ==
    /\ last.op \in { "get_trend_analysis", "combine_historical_and_predictive" }
    /\ last.gens = 1
    /\ Len(gen_calls) = 2
    /\ gen_calls[1] # gen_calls[2]
    /\ gen_calls[2] = last.days
    /\ Len(predictive_data_cache.prices) = last.days
====
